---- MODULE Spec2Model ----
(***************************************************************************)
(* Model of leaflow.py: the LeafLow daily check-in script.                 *)
(*                                                                         *)
(* Text is modelled as a sequence of lexemes.  Consecutive lexemes are     *)
(* separated by one blank, except that "<" may follow and ">" may precede  *)
(* a lexeme directly; every regular expression of the script allows \s*    *)
(* at each of these places.  A lexeme is a string; the tables below give,  *)
(* per lexeme, what the script's string operations compute on it (its      *)
(* lower-case form, its substrings that matter, its number of characters). *)
(* CJK lexemes are written in ASCII transliteration with a zh_ prefix:     *)
(*   zh_jinri_yi_qiandao = 今日已签到    zh_yi_qiandao = 已签到            *)
(*   zh_qiandao_chenggong = 签到成功     zh_huode = 获得                   *)
(*   zh_jiangli = 奖励   zh_lingqu = 领取   zh_lingqu_le = 领取了          *)
(*   zh_yuan = 元        zh_jifen = 积分    zh_yingbi = 硬币               *)
(***************************************************************************)
EXTENDS Integers, Sequences, FiniteSets, TLC

\* Python's None: an absent response, an absent reward, re.search finding nothing.
None == <<>>

Range(s) == {s[i] : i \in 1..Len(s)}

Min(S) == CHOOSE x \in S : \A y \in S : x <= y

-----------------------------------------------------------------------------
(* Lexemes                                                                 *)

\* class="reward-amount", the attribute the structural pattern is anchored to
RA == "class=\"reward-amount\""

\* str.lower() per lexeme; a lexeme not listed is already lower-case
LowerTable ==
    ("Earned" :> "earned") @@ ("Got" :> "got") @@ ("Credits" :> "credits")
    @@ ("Already" :> "already") @@ ("Dashboard" :> "dashboard")
    @@ ("Username" :> "username") @@ ("Success" :> "success")
    @@ ("https://leaflow.net/LOGIN" :> "https://leaflow.net/login")
    @@ ("CHECKED" :> "checked")

Lower(t) == IF t \in DOMAIN LowerTable THEN LowerTable[t] ELSE t

LowerText(text) == [i \in 1..Len(text) |-> Lower(text[i])]

\* the proper substrings of a lexeme that the script searches for
SubstrTable ==
    { <<"zh_jinri_yi_qiandao", "zh_yi_qiandao">>,
      <<"username", "user">>,
      <<"successful", "success">>,
      <<"https://leaflow.net/login", "login">> }

\* Python's  s in t  for a one-lexeme s
Includes(t, s) == t = s \/ <<t, s>> \in SubstrTable

\* Python's  phrase in text : a one-word phrase may lie inside a lexeme, the
\* words of a longer phrase are consecutive lexemes
ContainsPhrase(text, phrase) ==
    \E i \in 1..Len(text) :
        /\ i + Len(phrase) - 1 <= Len(text)
        /\ IF Len(phrase) = 1
           THEN Includes(text[i], phrase[1])
           ELSE \A k \in 1..Len(phrase) : text[i + k - 1] = phrase[k]

\* len() of a lexeme, in characters
CharLenTable ==
    ("zh_yuan" :> 1) @@ ("zh_jifen" :> 2) @@ ("zh_yingbi" :> 2)
    @@ ("zh_huode" :> 2) @@ ("zh_jiangli" :> 2) @@ ("zh_lingqu" :> 2)
    @@ ("zh_lingqu_le" :> 3) @@ ("zh_jinri_yi_qiandao" :> 5)
    @@ ("zh_yi_qiandao" :> 3) @@ ("zh_qiandao_chenggong" :> 4)
    @@ ("" :> 0)

CharLen(t) == IF t \in DOMAIN CharLenTable THEN CharLenTable[t] ELSE Len(t)

\* lexemes made of digits and dots: [\d\.]+ and \d+\.?\d* both take them whole
Numbers == {"5", "10", "0.07"}

\* a number of two or more characters followed directly by "<": [\d\.]+ gives
\* back its last character, which [^<\s]+ then takes as the unit
NumSplit == ("10" :> <<"1", "0">>) @@ ("0.07" :> <<"0.0", "7">>)

\* the longest prefix of a lexeme that [a-zA-Z一-龥]+ matches ("" if none)
LetterPrefixTable ==
    ("<" :> "") @@ (">" :> "") @@ ("/div" :> "") @@ ("5" :> "") @@ ("10" :> "")
    @@ ("0.07" :> "") @@ ("check-in" :> "check") @@ (RA :> "class")

LetterPrefix(t) == IF t \in DOMAIN LetterPrefixTable THEN LetterPrefixTable[t] ELSE t

\* str.strip("<>\"',. ") per lexeme; a lexeme not listed has no such end
StripTable == ("<" :> "") @@ (">" :> "")

StripPunct(u) == IF u \in DOMAIN StripTable THEN StripTable[u] ELSE u

-----------------------------------------------------------------------------
(* extract_reward                                                          *)

\* re.search found nothing; a match is the tuple match.groups(), never empty
NoMatch == None

\* class="reward-amount"[^>]*>\s*([\d\.]+)\s*([^<\s]+)\s*<
StructureAt(h, i) ==
    LET G == {j \in (i + 1)..Len(h) : h[j] = ">"}
        j == Min(G)
    IN  IF h[i] # RA \/ G = {} THEN NoMatch
        ELSE IF /\ j + 3 <= Len(h)
                /\ h[j + 1] \in Numbers
                /\ h[j + 2] # "<"
                /\ h[j + 3] = "<"
             THEN <<h[j + 1], h[j + 2]>>
        ELSE IF /\ j + 2 <= Len(h)
                /\ h[j + 1] \in DOMAIN NumSplit
                /\ h[j + 2] = "<"
             THEN NumSplit[h[j + 1]]
        ELSE NoMatch

\* (?:获得|奖励|领取了?)\s*(\d+\.?\d*)\s*([a-zA-Z一-龥]+)
TextPattern1At(h, i) ==
    IF /\ i + 2 <= Len(h)
       /\ h[i] \in {"zh_huode", "zh_jiangli", "zh_lingqu", "zh_lingqu_le"}
       /\ h[i + 1] \in Numbers
       /\ LetterPrefix(h[i + 2]) # ""
    THEN <<h[i + 1], LetterPrefix(h[i + 2])>>
    ELSE NoMatch

\* earned\s*(\d+\.?\d*)\s*(credits?|points?), re.IGNORECASE
TextPattern2At(h, i) ==
    IF /\ i + 2 <= Len(h)
       /\ Lower(h[i]) = "earned"
       /\ h[i + 1] \in Numbers
       /\ Lower(h[i + 2]) \in {"credit", "credits", "point", "points"}
    THEN <<h[i + 1], h[i + 2]>>
    ELSE NoMatch

\* got\s*(\d+\.?\d*)\s*(credits?|points?), re.IGNORECASE
TextPattern3At(h, i) ==
    IF /\ i + 2 <= Len(h)
       /\ Lower(h[i]) = "got"
       /\ h[i + 1] \in Numbers
       /\ Lower(h[i + 2]) \in {"credit", "credits", "point", "points"}
    THEN <<h[i + 1], h[i + 2]>>
    ELSE NoMatch

\* (\d+\.?\d*)\s*(?:points|credits|积分|硬币|元), re.IGNORECASE: the unit group
\* is non-capturing, so match.groups() holds the number alone
TextPattern4At(h, i) ==
    IF /\ i + 1 <= Len(h)
       /\ h[i] \in Numbers
       /\ Lower(h[i + 1]) \in {"points", "credits", "zh_jifen", "zh_yingbi", "zh_yuan"}
    THEN <<h[i]>>
    ELSE NoMatch

\* the match of a pattern starting at lexeme i: pattern 0 is structure_pattern,
\* patterns 1 to 4 are the entries of text_patterns
PatternAt(n, h, i) ==
    CASE n = 0 -> StructureAt(h, i)
      [] n = 1 -> TextPattern1At(h, i)
      [] n = 2 -> TextPattern2At(h, i)
      [] n = 3 -> TextPattern3At(h, i)
      [] n = 4 -> TextPattern4At(h, i)

\* pattern.search(html_content): the leftmost match
Search(h, n) ==
    LET S == {i \in 1..Len(h) : PatternAt(n, h, i) # NoMatch}
    IN  IF S = {} THEN NoMatch ELSE PatternAt(n, h, Min(S))

StructureSearch(h) == Search(h, 0)

TextSearch(h, n) == Search(h, n)

NumTextPatterns == 4

\* len(unit) < 10
UnitLenLimit == 10

\* the body of  for pattern in text_patterns  from the k-th pattern on
RECURSIVE TextMatchFrom(_, _)
TextMatchFrom(h, k) ==
    IF k > NumTextPatterns THEN None
    ELSE LET groups == TextSearch(h, k)
         IN  IF /\ groups # NoMatch
                /\ Len(groups) = 2
                /\ CharLen(StripPunct(groups[2])) < UnitLenLimit
             THEN <<groups[1], StripPunct(groups[2])>>
             ELSE TextMatchFrom(h, k + 1)

\* the text patterns tried before the structural one
ExtractReward_TextFirst(h) ==
    LET t == TextMatchFrom(h, 1)
        m == StructureSearch(h)
    IN  IF t # None THEN t ELSE IF m # NoMatch THEN <<m[1], m[2]>> ELSE None

\* extract_reward(html_content): (amount, unit), or None
ExtractReward(h) ==
    LET m == StructureSearch(h)
    IN  IF m # NoMatch THEN <<m[1], m[2]>> ELSE TextMatchFrom(h, 1)

-----------------------------------------------------------------------------
(* main: the credential configuration                                      *)

\* the characters of LEAFLOW_COOKIES that the script tells apart: the two
\* separators, blanks, '=' and ';' (a ';' alone is an entry without a pair)
EnvChars == {"&", "\n", " ", "=", ";"}

Whitespace == {" ", "\n"}

\* str.strip()
RECURSIVE Strip(_)
Strip(s) ==
    IF s = <<>> THEN s
    ELSE IF Head(s) \in Whitespace THEN Strip(Tail(s))
    ELSE IF s[Len(s)] \in Whitespace THEN Strip(SubSeq(s, 1, Len(s) - 1))
    ELSE s

\* str.split(sep): the pieces between the separators, at least one
RECURSIVE Split(_, _)
Split(s, sep) ==
    LET P == {p \in 1..Len(s) : s[p] = sep}
    IN  IF P = {} THEN <<s>>
        ELSE <<SubSeq(s, 1, Min(P) - 1)>> \o Split(SubSeq(s, Min(P) + 1, Len(s)), sep)

StripAll(parts) == [n \in 1..Len(parts) |-> Strip(parts[n])]

\* [c for c in cookies_list if c]
NonEmpty(parts) == SelectSeq(parts, LAMBDA c : c # <<>>)

\* an empty entry kept in the list
MainCookiesList_KeepEmpty(env) ==
    IF "&" \in Range(env) THEN StripAll(Split(env, "&"))
    ELSE IF "\n" \in Range(env) THEN StripAll(Split(env, "\n"))
    ELSE <<Strip(env)>>

\* main(): cookies_list built from the environment value
MainCookiesList(env) ==
    NonEmpty(IF "&" \in Range(env) THEN StripAll(Split(env, "&"))
             ELSE IF "\n" \in Range(env) THEN StripAll(Split(env, "\n"))
             ELSE <<Strip(env)>>)

\* parse_cookie_string: the dict, as the set of its <<name, value>> items.
\* A later pair of the same name replaces the earlier one.  unquote rewrites
\* %XX escapes only, and EnvChars has no '%'.
RECURSIVE ParseSegments(_, _)
ParseSegments(segs, cookies) ==
    IF segs = <<>> THEN cookies
    ELSE LET cookie == Strip(Head(segs))
             P == {p \in 1..Len(cookie) : cookie[p] = "="}
             name == Strip(SubSeq(cookie, 1, Min(P) - 1))
             value == Strip(SubSeq(cookie, Min(P) + 1, Len(cookie)))
         IN  IF P = {} THEN ParseSegments(Tail(segs), cookies)
             ELSE ParseSegments(Tail(segs),
                      {c \in cookies : c[1] # name} \cup {<<name, value>>})

ParseCookieString(cookie_string) == ParseSegments(Split(cookie_string, ";"), {})

-----------------------------------------------------------------------------
(* HTTP: the requests and what the site may answer                         *)

\* self.main_site + path, in the order of test_urls
TestUrls ==
    << "https://leaflow.net/dashboard", "https://leaflow.net/user",
       "https://leaflow.net/profile" >>

\* what a call of session.get / session.post may raise
RequestException == <<"requests.exceptions.RequestException">>
OtherException == <<"Exception">>
Raised == {RequestException, OtherException}

\* answers to an authentication probe: status, final URL, body
ProbeResponses(url) ==
    [ status_code : {200, 404},
      url : {url, "https://leaflow.net/LOGIN"},
      text : {<<"please", "sign", "in">>, <<"Dashboard">>} ]

\* answers to the GET of the check-in page
CheckinPages ==
    [ status_code : {200, 500},
      text : { <<"check", "in", "now">>,
               <<"Already", "CHECKED", "in", "<", "div", RA, ">", "0.07", "zh_yuan", "<", "/div", ">">>,
               <<"zh_jinri_yi_qiandao">>,
               <<"already", "checked", "in">>,
               <<"earned", "5", "credits">> } ]

\* answers to the check-in POST
PostResponses ==
    [ status_code : {200, 500},
      text : { <<"zh_qiandao_chenggong", "zh_huode", "0.07", "zh_yuan">>,
               <<"Success">>,
               <<"try", "again">> } ]

-----------------------------------------------------------------------------
(* State                                                                   *)

VARIABLES
    cookies_env,     \* os.environ.get('LEAFLOW_COOKIES'); <<>> when unset or empty
    cookies_list,    \* self.cookies_list
    results,         \* self.results
    pc,              \* where the script is
    i,               \* the index of run()'s loop
    k,               \* the index of test_authentication's loop (1-based)
    response,        \* test_authentication's local
    response_get,    \* perform_checkin's locals
    response_post,
    html_content,    \* perform_checkin's local; extract_reward's argument
    reward_info,     \* perform_checkin's local; extract_reward's result
    exc,             \* the exception caught by the running function
    ret,             \* the value a function is returning to run()
    trace,           \* what the script did outside itself: requests, log lines, sleeps
    sent             \* the notifications passed to send()

vars == << cookies_env, cookies_list, results, pc, i, k, response, response_get,
           response_post, html_content, reward_info, exc, ret, trace, sent >>

\* f"账号{i + 1}"
AccountName(n) == <<"account", n>>

NotApplicable == <<"N/A", 0>>

Result(account, success, message) ==
    [account |-> account, success |-> success, message |-> message]

Event(n, what) == <<n, what>>

-----------------------------------------------------------------------------
(* The messages of the results, as <<text, arguments...>>                  *)

MsgNotConfigured == <<"no cookie configured">>
MsgCookieFormat == <<"cookie format error">>
MsgAuthOk == <<"authenticated">>
MsgAuthLogin == <<"authentication failed: redirected to the login page">>
MsgAuthUnconfirmed(n) == <<"authentication failed: login state not confirmed by any of the pages", n>>
MsgAuthNetwork(e) == <<"network error while testing authentication", e>>
MsgPageStatus(code) == <<"check-in page failed, status", code>>
MsgAlready(reward) ==
    IF reward # None THEN <<"already checked in today, reward", reward[1], reward[2]>>
    ELSE <<"already checked in today, no reward found on the page">>
MsgCheckedIn(reward) ==
    IF reward # None THEN <<"check-in successful, got", reward[1], reward[2]>>
    ELSE <<"check-in successful, no reward found in the answer">>
MsgNoMarker == <<"check-in request sent, no success marker in the answer">>
MsgPostStatus(code) == <<"check-in POST failed, status", code>>
MsgCheckinNetwork(e) == <<"network error during check-in", e>>
MsgCheckinUnknown(e) == <<"unknown error during check-in", e>>

-----------------------------------------------------------------------------
(* test_authentication                                                     *)

AuthKeywords == {"dashboard", "logout", "profile", "user"}

\* the two tests made on a probe's response: "ok" returns success, "login"
\* returns failure, "next" goes on with the loop
AuthVerdict(r) ==
    IF /\ r.status_code = 200
       /\ \E kw \in AuthKeywords : ContainsPhrase(LowerText(r.text), <<kw>>)
    THEN "ok"
    ELSE IF Includes(Lower(r.url), "login")
    THEN "login"
    ELSE "next"

\* the loop goes on although the login redirect was seen
AfterProbe_NoStop(r, n) ==
    IF AuthVerdict(r) = "ok" THEN "return"
    ELSE IF n < Len(TestUrls) THEN "next" ELSE "return"

\* after the n-th probe's response: leave the function or try the next URL
AfterProbe(r, n) ==
    IF AuthVerdict(r) # "next" THEN "return"
    ELSE IF n < Len(TestUrls) THEN "next" ELSE "return"

AuthReturnValue(r) ==
    CASE AuthVerdict(r) = "ok" -> <<TRUE, MsgAuthOk>>
      [] AuthVerdict(r) = "login" -> <<FALSE, MsgAuthLogin>>
      [] OTHER -> <<FALSE, MsgAuthUnconfirmed(Len(TestUrls))>>

AuthLogLines(n, r) ==
    CASE AuthVerdict(r) = "ok" -> <<Event(n, "log: cookie valid")>>
      [] AuthVerdict(r) = "login" -> <<Event(n, "log: redirected to login")>>
      [] OTHER -> <<>>

-----------------------------------------------------------------------------
(* perform_checkin                                                         *)

AlreadyIndicators == {<<"already", "checked", "in">>, <<"zh_jinri_yi_qiandao">>}

SuccessIndicators ==
    { <<"check-in", "successful">>, <<"checkin", "successful">>,
      <<"zh_qiandao_chenggong">>, <<"success">>, <<"zh_yi_qiandao">> }

\* the page never taken as already checked in
AlreadyCheckedIn_Never(html) == FALSE

\* any(indicator in html_content.lower() for indicator in [...])
AlreadyCheckedIn(html) ==
    \E ind \in AlreadyIndicators : ContainsPhrase(LowerText(html), ind)

\* the status of the POST alone taken as success
PostSucceeded_StatusOnly(r) == r.status_code = 200

\* status 200 and a success indicator in the lower-cased answer
PostSucceeded(r) ==
    /\ r.status_code = 200
    /\ \E ind \in SuccessIndicators : ContainsPhrase(LowerText(r.text), ind)

PostReturnValue(r) ==
    IF r.status_code = 200
    THEN IF PostSucceeded(r)
         THEN <<TRUE, MsgCheckedIn(ExtractReward(r.text))>>
         ELSE <<FALSE, MsgNoMarker>>
    ELSE <<FALSE, MsgPostStatus(r.status_code)>>

\* the except clauses of perform_checkin
CheckinErrorValue(e) ==
    IF e = RequestException THEN <<FALSE, MsgCheckinNetwork(e)>>
    ELSE <<FALSE, MsgCheckinUnknown(e)>>

-----------------------------------------------------------------------------
(* generate_report                                                         *)

RECURSIVE SuccessCount(_)
SuccessCount(rs) ==
    IF rs = <<>> THEN 0
    ELSE (IF Head(rs).success THEN 1 ELSE 0) + SuccessCount(Tail(rs))

GenerateReport(rs) ==
    [ title |-> <<"report", SuccessCount(rs), Len(rs)>>,
      content |-> [n \in 1..Len(rs) |-> <<rs[n].success, rs[n].account, rs[n].message>>] ]

-----------------------------------------------------------------------------
(* Initial states                                                          *)

\* the longest environment value tried
MaxEnvLen == 3

RECURSIVE SeqsUpTo(_, _)
SeqsUpTo(S, n) ==
    IF n = 0 THEN {<<>>}
    ELSE LET shorter == SeqsUpTo(S, n - 1)
         IN  shorter \cup {Append(s, c) : s \in shorter, c \in S}

Envs == SeqsUpTo(EnvChars, MaxEnvLen)

Idle ==
    /\ cookies_list = <<>>
    /\ results = <<>>
    /\ i = 0
    /\ k = 0
    /\ response = None
    /\ response_get = None
    /\ response_post = None
    /\ exc = None
    /\ ret = None
    /\ trace = <<>>
    /\ sent = <<>>

\* the script is started with some value of LEAFLOW_COOKIES, or none
Init ==
    /\ cookies_env \in Envs
    /\ pc = "main"
    /\ html_content = None
    /\ reward_info = None
    /\ Idle

-----------------------------------------------------------------------------
(* main                                                                    *)

\* if not cookies_env: send(...); sys.exit(1)
MainExit ==
    /\ pc = "main"
    /\ cookies_env = <<>>
    /\ sent' = Append(sent, [title |-> <<"check-in failed">>,
                             content |-> <<"LEAFLOW_COOKIES not found">>])
    /\ pc' = "exited"
    /\ UNCHANGED << cookies_env, cookies_list, results, i, k, response, response_get,
                    response_post, html_content, reward_info, exc, ret, trace >>

\* cookies_list is built, LeafLowCheckin(cookies_list) constructed, run() entered
MainStart ==
    /\ pc = "main"
    /\ cookies_env # <<>>
    /\ cookies_list' = MainCookiesList(cookies_env)
    /\ results' = <<>>
    /\ pc' = "run"
    /\ UNCHANGED << cookies_env, i, k, response, response_get, response_post,
                    html_content, reward_info, exc, ret, trace, sent >>

\* checkin_task.generate_report(); send(title, content)
Report ==
    /\ pc = "report"
    /\ sent' = Append(sent, GenerateReport(results))
    /\ pc' = "done"
    /\ UNCHANGED << cookies_env, cookies_list, results, i, k, response, response_get,
                    response_post, html_content, reward_info, exc, ret, trace >>

-----------------------------------------------------------------------------
(* run                                                                     *)

\* not self.cookies_list or not self.cookies_list[0]
ListEmpty(list) == IF list = <<>> THEN TRUE ELSE list[1] = <<>>

\* self.results.append({'account': 'N/A', 'success': False, ...})
RunEmptyResults(rs) == Append(rs, Result(NotApplicable, FALSE, MsgNotConfigured))

\* if not self.cookies_list or not self.cookies_list[0]: ... return
RunEmpty ==
    /\ pc = "run"
    /\ ListEmpty(cookies_list)
    /\ results' = RunEmptyResults(results)
    /\ pc' = "report"
    /\ UNCHANGED << cookies_env, cookies_list, i, k, response, response_get,
                    response_post, html_content, reward_info, exc, ret, trace, sent >>

RunStart ==
    /\ pc = "run"
    /\ ~ListEmpty(cookies_list)
    /\ i' = 0
    /\ pc' = "loop"
    /\ UNCHANGED << cookies_env, cookies_list, results, k, response, response_get,
                    response_post, html_content, reward_info, exc, ret, trace, sent >>

\* the for loop is exhausted and run() returns
LoopEnd ==
    /\ pc = "loop"
    /\ i >= Len(cookies_list)
    /\ pc' = "report"
    /\ UNCHANGED << cookies_env, cookies_list, results, i, k, response, response_get,
                    response_post, html_content, reward_info, exc, ret, trace, sent >>

\* if not cookies_dict: self.results.append(...)
FormatErrorResults(rs, n) == Append(rs, Result(AccountName(n), FALSE, MsgCookieFormat))

\* cookies_dict is empty: the result is appended and the loop continues
CookieFormatError ==
    /\ pc = "loop"
    /\ i < Len(cookies_list)
    /\ ParseCookieString(cookies_list[i + 1]) = {}
    /\ trace' = Append(trace, Event(i + 1, "log: processing"))
    /\ results' = FormatErrorResults(results, i + 1)
    /\ i' = i + 1
    /\ UNCHANGED << cookies_env, cookies_list, pc, k, response, response_get,
                    response_post, html_content, reward_info, exc, ret, sent >>

\* cookies_dict is not empty: the session is created, test_authentication entered
BeginAuth ==
    /\ pc = "loop"
    /\ i < Len(cookies_list)
    /\ ParseCookieString(cookies_list[i + 1]) # {}
    /\ trace' = Append(trace, Event(i + 1, "log: processing"))
    /\ k' = 1
    /\ pc' = "auth"
    /\ UNCHANGED << cookies_env, cookies_list, results, i, response, response_get,
                    response_post, html_content, reward_info, exc, ret, sent >>

\* session.get(url) of test_authentication answers
ProbeResponds ==
    /\ pc = "auth"
    /\ \E r \in ProbeResponses(TestUrls[k]) :
        /\ response' = r
        /\ trace' = trace \o <<Event(i + 1, TestUrls[k])>> \o AuthLogLines(i + 1, r)
        /\ IF AfterProbe(r, k) = "return"
           THEN /\ ret' = AuthReturnValue(r)
                /\ pc' = "auth_return"
                /\ k' = k
           ELSE /\ k' = k + 1
                /\ UNCHANGED << ret, pc >>
    /\ UNCHANGED << cookies_env, cookies_list, results, i, response_get, response_post,
                    html_content, reward_info, exc, sent >>

\* session.get(url) of test_authentication raises: a RequestException is
\* caught and returned as a failure, anything else leaves run() and main()
ProbeRaises ==
    /\ pc = "auth"
    /\ \E e \in Raised :
        /\ exc' = e
        /\ IF e = RequestException
           THEN /\ trace' = trace \o <<Event(i + 1, TestUrls[k]),
                                       Event(i + 1, "log: network error")>>
                /\ ret' = <<FALSE, MsgAuthNetwork(e)>>
                /\ pc' = "auth_return"
           ELSE /\ trace' = Append(trace, Event(i + 1, TestUrls[k]))
                /\ ret' = ret
                /\ pc' = "crashed"
    /\ UNCHANGED << cookies_env, cookies_list, results, i, k, response, response_get,
                    response_post, html_content, reward_info, sent >>

\* the check-in entered whatever the probe returned
CheckinAllowed_Always(auth) == TRUE

\* if not auth_success: ... continue
CheckinAllowed(auth) == auth[1]

\* auth_success, auth_message = ...; on failure the result is appended and the
\* loop continues, otherwise perform_checkin is entered
AuthReturn ==
    /\ pc = "auth_return"
    /\ IF CheckinAllowed(ret)
       THEN /\ pc' = "checkin_get"
            /\ trace' = Append(trace, Event(i + 1, "log: visiting check-in page"))
            /\ UNCHANGED << results, i >>
       ELSE /\ results' = Append(results, Result(AccountName(i + 1), FALSE, ret[2]))
            /\ i' = i + 1
            /\ pc' = "loop"
            /\ trace' = trace
    /\ response' = None
    /\ exc' = None
    /\ ret' = None
    /\ k' = 0
    /\ UNCHANGED << cookies_env, cookies_list, response_get, response_post,
                    html_content, reward_info, sent >>

\* session.get(self.checkin_url) answers
CheckinGetResponds ==
    /\ pc = "checkin_get"
    /\ \E r \in CheckinPages :
        /\ response_get' = r
        /\ IF r.status_code # 200
           THEN /\ ret' = <<FALSE, MsgPageStatus(r.status_code)>>
                /\ pc' = "checkin_return"
                /\ trace' = Append(trace, Event(i + 1, "GET check-in"))
                /\ UNCHANGED << html_content, reward_info >>
           ELSE /\ html_content' = r.text
                /\ reward_info' = ExtractReward(r.text)
                /\ IF AlreadyCheckedIn(r.text)
                   THEN /\ ret' = <<TRUE, MsgAlready(reward_info')>>
                        /\ pc' = "checkin_return"
                        /\ trace' = trace \o <<Event(i + 1, "GET check-in"),
                                               Event(i + 1, "log: already checked in")>>
                   ELSE /\ pc' = "checkin_post"
                        /\ trace' = trace \o <<Event(i + 1, "GET check-in"),
                                               Event(i + 1, "log: not checked in yet")>>
                        /\ ret' = ret
    /\ UNCHANGED << cookies_env, cookies_list, results, i, k, response, response_post,
                    exc, sent >>

\* session.get(self.checkin_url) raises: either except clause returns a failure
CheckinGetRaises ==
    /\ pc = "checkin_get"
    /\ \E e \in Raised :
        /\ exc' = e
        /\ ret' = CheckinErrorValue(e)
    /\ trace' = trace \o <<Event(i + 1, "GET check-in"), Event(i + 1, "log: check-in error")>>
    /\ pc' = "checkin_return"
    /\ UNCHANGED << cookies_env, cookies_list, results, i, k, response, response_get,
                    response_post, html_content, reward_info, sent >>

\* session.post(self.checkin_url, data={'checkin': '1'}) answers
CheckinPostResponds ==
    /\ pc = "checkin_post"
    /\ \E r \in PostResponses :
        /\ response_post' = r
        /\ ret' = PostReturnValue(r)
        /\ trace' = trace \o <<Event(i + 1, "POST check-in")>>
                     \o (IF PostReturnValue(r)[1]
                         THEN <<Event(i + 1, "log: checked in")>> ELSE <<>>)
    /\ pc' = "checkin_return"
    /\ UNCHANGED << cookies_env, cookies_list, results, i, k, response, response_get,
                    html_content, reward_info, exc, sent >>

\* session.post(...) raises
CheckinPostRaises ==
    /\ pc = "checkin_post"
    /\ \E e \in Raised :
        /\ exc' = e
        /\ ret' = CheckinErrorValue(e)
    /\ trace' = trace \o <<Event(i + 1, "POST check-in"), Event(i + 1, "log: check-in error")>>
    /\ pc' = "checkin_return"
    /\ UNCHANGED << cookies_env, cookies_list, results, i, k, response, response_get,
                    response_post, html_content, reward_info, sent >>

\* checkin_success, checkin_message = ...; self.results.append({...})
CheckinReturn ==
    /\ pc = "checkin_return"
    /\ results' = Append(results, Result(AccountName(i + 1), ret[1], ret[2]))
    /\ response_get' = None
    /\ response_post' = None
    /\ html_content' = None
    /\ reward_info' = None
    /\ exc' = None
    /\ ret' = None
    /\ pc' = "delay"
    /\ UNCHANGED << cookies_env, cookies_list, i, k, response, trace, sent >>

\* if i < len(self.cookies_list) - 1: time.sleep(delay)
Sleep ==
    /\ pc = "delay"
    /\ i < Len(cookies_list) - 1
    /\ trace' = Append(trace, Event(i + 1, "sleep"))
    /\ i' = i + 1
    /\ pc' = "loop"
    /\ UNCHANGED << cookies_env, cookies_list, results, k, response, response_get,
                    response_post, html_content, reward_info, exc, ret, sent >>

NoSleep ==
    /\ pc = "delay"
    /\ ~(i < Len(cookies_list) - 1)
    /\ i' = i + 1
    /\ pc' = "loop"
    /\ UNCHANGED << cookies_env, cookies_list, results, k, response, response_get,
                    response_post, html_content, reward_info, exc, ret, trace, sent >>

Next ==
    \/ MainExit
    \/ MainStart
    \/ RunEmpty
    \/ RunStart
    \/ LoopEnd
    \/ CookieFormatError
    \/ BeginAuth
    \/ ProbeResponds
    \/ ProbeRaises
    \/ AuthReturn
    \/ CheckinGetResponds
    \/ CheckinGetRaises
    \/ CheckinPostResponds
    \/ CheckinPostRaises
    \/ CheckinReturn
    \/ Sleep
    \/ NoSleep
    \/ Report

Spec == Init /\ [][Next]_vars

-----------------------------------------------------------------------------
(* extract_reward on its own                                               *)

\* pieces of pages, put together in any order
Fragments ==
    << <<"<", "div", RA, ">", "0.07", "zh_yuan", "<", "/div", ">">>,
       <<"earned", "5", "credits">>,
       <<"You", "Got", "10", "points", "today">>,
       <<"5", "Credits">>,
       <<"0.07", "zh_yuan">>,
       <<"zh_huode", "10", "certificates">>,
       <<"zh_huode", "0.07", "zh_yuan">>,
       <<"<", "span", RA, ">", "10", "<">>,
       <<RA, ">", "5", "<">>,
       <<"no", "reward", "here">> >>

\* the most fragments in a page
MaxFragments == 2

RECURSIVE Pages(_)
Pages(n) ==
    IF n = 0 THEN {<<>>}
    ELSE LET shorter == Pages(n - 1)
         IN  shorter \cup {p \o Fragments[f] : p \in shorter, f \in 1..Len(Fragments)}

InitReward ==
    /\ html_content \in Pages(MaxFragments)
    /\ reward_info = None
    /\ cookies_env = <<>>
    /\ pc = "extract"
    /\ Idle

\* reward_info = self.extract_reward(html_content)
ExtractRewardCall ==
    /\ pc = "extract"
    /\ reward_info' = ExtractReward(html_content)
    /\ pc' = "extracted"
    /\ UNCHANGED << cookies_env, cookies_list, results, i, k, response, response_get,
                    response_post, html_content, exc, ret, trace, sent >>

NextReward == ExtractRewardCall

SpecReward == InitReward /\ [][NextReward]_vars

-----------------------------------------------------------------------------
(* Properties                                                              *)

\* what the script did for account n, in order
Did(n) == LET evs == SelectSeq(trace, LAMBDA ev : ev[1] = n)
          IN  [j \in 1..Len(evs) |-> evs[j][2]]

Count(seq, x) == Cardinality({j \in 1..Len(seq) : seq[j] = x})

Finished == pc \in {"report", "done"}

\* the separator main() splits on ("&" also stands for no separator at all)
C1_Sep(env) == IF "&" \in Range(env) THEN "&" ELSE IF "\n" \in Range(env) THEN "\n" ELSE "&"

C1_Blank(env, p) == env[p] \in Whitespace \cup {C1_Sep(env)}

\* the positions where a non-empty trimmed entry starts: a non-blank character
\* with only blanks between it and the separator (or the start) before it
C1_EntryStarts(env) ==
    { p \in 1..Len(env) :
        /\ ~C1_Blank(env, p)
        /\ \A q \in 1..(p - 1) :
              ~C1_Blank(env, q) => \E r \in (q + 1)..(p - 1) : env[r] = C1_Sep(env) }

\* the entry starting at p holds a name=value pair
C1_HasPair(env, p) ==
    \E q \in p..Len(env) :
        /\ env[q] = "="
        /\ \A r \in p..q : env[r] # C1_Sep(env)

\* the n-th smallest element of a set of numbers
RECURSIVE C1_Nth(_, _)
C1_Nth(S, n) == IF n = 1 THEN Min(S) ELSE C1_Nth(S \ {Min(S)}, n - 1)

\* C1 as stated: after run(), one result per non-empty trimmed entry, the n-th
\* result being that of the n-th entry, also when there is no such entry
C1_OneResultPerEntry ==
    Finished =>
        /\ Len(results) = Cardinality(C1_EntryStarts(cookies_env))
        /\ \A n \in 1..Len(results) : results[n].account = AccountName(n)

\* C1 amended: after run(), if there is at least one non-empty trimmed entry, the
\* results are one per entry in input order (the n-th is labelled account n and
\* is the cookie format error exactly if the n-th entry holds no pair); if there
\* is none, the results are the single placeholder result of account N/A
C1_OneResultPerEntryOrPlaceholder ==
    Finished =>
        LET starts == C1_EntryStarts(cookies_env)
        IN  IF starts = {}
            THEN results = <<Result(NotApplicable, FALSE, MsgNotConfigured)>>
            ELSE /\ Len(results) = Cardinality(starts)
                 /\ \A n \in 1..Len(results) :
                       /\ results[n].account = AccountName(n)
                       /\ results[n].message = MsgCookieFormat
                            <=> ~C1_HasPair(cookies_env, C1_Nth(starts, n))

\* two entries, the first without a pair, the second checked in
C1_Witness ==
    /\ pc = "done"
    /\ Len(results) = 2
    /\ results[1].message = MsgCookieFormat
    /\ results[2].success

\* C2 as stated: a probe response whose final URL contains "login" makes
\* test_authentication return the redirected-to-login failure, whatever its
\* status and body
C2_LoginUrlFails ==
    (/\ pc \in {"auth", "auth_return"}
     /\ response # None
     /\ exc = None)
    => (Lower(response.url) = "https://leaflow.net/login"
            => pc = "auth_return" /\ ret = <<FALSE, MsgAuthLogin>>)

\* the page holds 'already checked in' or 今日已签到 as written
C3_HasIndicator(text) ==
    \/ "zh_jinri_yi_qiandao" \in Range(text)
    \/ \E p \in 1..(Len(text) - 2) : SubSeq(text, p, p + 2) = <<"already", "checked", "in">>

\* C3: a check-in page with status 200 and an already-checked-in indicator
\* makes perform_checkin return success with the already-checked-in message
\* (with the reward of that page, or the note that none was found), and no POST
\* is issued for that account
C3_AlreadyCheckedInNoPost ==
    /\ (pc = "checkin_return" /\ response_get # None)
        => ((response_get.status_code = 200 /\ C3_HasIndicator(response_get.text))
            => /\ ret = <<TRUE, MsgAlready(ExtractReward(response_get.text))>>
               /\ response_post = None
               /\ Count(Did(i + 1), "POST check-in") = 0)
    /\ \A n \in 1..Len(results) :
          results[n].message[1] \in { MsgAlready(None)[1], MsgAlready(<<"", "">>)[1] }
          => /\ results[n].success
             /\ results[n].account = AccountName(n)
             /\ Count(Did(n), "POST check-in") = 0

\* the already-checked-in page was fetched and perform_checkin is returning
C3_Witness ==
    /\ pc = "checkin_return"
    /\ response_get # None
    /\ response_get.text = <<"already", "checked", "in">>
    /\ response_get.status_code = 200
    /\ ret[1]

\* C4 as stated: no error raised while an account is processed escapes run();
\* each is turned into a failure of that account
C4_NoErrorEscapes ==
    /\ pc # "crashed"
    /\ (exc # None /\ pc \in {"auth_return", "checkin_return"}) => ~ret[1]

\* a text stage gives a value: the pattern matches, captures two groups, and
\* the unit is short enough
C5_Yields(h, n) ==
    LET g == TextSearch(h, n)
    IN  IF g = NoMatch THEN FALSE
        ELSE Len(g) = 2 /\ CharLen(StripPunct(g[2])) < UnitLenLimit

\* C5: if the structural pattern matches, the result is its (amount, unit),
\* whatever the text patterns match; otherwise the result is that of the first
\* text stage that gives a value; the result is absent exactly if no stage
\* gives a value
C5_StructureFirst ==
    pc = "extracted" =>
        LET m == StructureSearch(html_content)
            Y == {n \in 1..NumTextPatterns : C5_Yields(html_content, n)}
        IN  /\ m # NoMatch => reward_info = <<m[1], m[2]>>
            /\ (m = NoMatch /\ Y # {}) =>
                  reward_info = << TextSearch(html_content, Min(Y))[1],
                                   StripPunct(TextSearch(html_content, Min(Y))[2]) >>
            /\ reward_info = None <=> (m = NoMatch /\ Y = {})

\* a page with the reward-amount element and, before it, 'earned 5 credits'
C5_Witness ==
    /\ pc = "extracted"
    /\ html_content = <<"earned", "5", "credits">>
                      \o <<"<", "div", RA, ">", "0.07", "zh_yuan", "<", "/div", ">">>
    /\ reward_info = <<"0.07", "zh_yuan">>

\* C6 as stated: the delay occurs exactly once between every two consecutive
\* accounts, whatever the outcome of the first of them, and never after the last
C6_DelayBetweenAccounts ==
    /\ \A j \in 1..Len(trace) :
          (trace[j][2] = "log: processing" /\ trace[j][1] > 1)
          => /\ trace[j - 1] = Event(trace[j][1] - 1, "sleep")
             /\ Count(Did(trace[j][1] - 1), "sleep") = 1
    /\ Count(Did(Len(cookies_list)), "sleep") = 0

\* C7 as stated: with no match of the structural pattern and of the text
\* patterns a to c, a number directly followed by a unit word of pattern d is
\* returned as (amount, unit)
C7_BareNumberWithUnit ==
    (/\ pc = "extracted"
     /\ StructureSearch(html_content) = NoMatch
     /\ \A n \in 1..3 : TextSearch(html_content, n) = NoMatch
     /\ TextSearch(html_content, 4) # NoMatch)
    => LET p == Min({q \in 1..Len(html_content) : TextPattern4At(html_content, q) # NoMatch})
       IN  reward_info = <<html_content[p], html_content[p + 1]>>

\* the lower-cased answer holds one of the success indicators
C8_HasMarker(text) ==
    \E t \in Range(text) :
        Lower(t) \in {"success", "successful", "zh_qiandao_chenggong", "zh_yi_qiandao",
                      "zh_jinri_yi_qiandao"}

\* C8: perform_checkin returns one outcome fixed by the answers.  GET raised:
\* failure naming the error, no POST.  GET status not 200: failure with the
\* status, no POST.  GET 200 and not already checked in: exactly one POST, and
\* success iff the POST answers 200 with a success indicator; 200 without one
\* is the no-marker failure, another status the failure with that status, a
\* raised error the failure naming it.  No request is made twice.
C8_OneOutcome ==
    /\ pc = "checkin_return" =>
          LET gets == Count(Did(i + 1), "GET check-in")
              posts == Count(Did(i + 1), "POST check-in")
          IN  /\ gets = 1
              /\ IF response_get = None
                 THEN exc # None /\ ~ret[1] /\ ret[2][2] = exc /\ posts = 0
                 ELSE IF response_get.status_code # 200
                 THEN ret = <<FALSE, MsgPageStatus(response_get.status_code)>> /\ posts = 0
                 ELSE IF C3_HasIndicator(LowerText(response_get.text))
                 THEN posts = 0
                 ELSE /\ posts = 1
                      /\ IF response_post = None
                         THEN exc # None /\ ~ret[1] /\ ret[2][2] = exc
                         ELSE /\ ret[1] <=> (/\ response_post.status_code = 200
                                             /\ C8_HasMarker(response_post.text))
                              /\ (response_post.status_code = 200 /\ ~ret[1])
                                    => ret[2] = MsgNoMarker
                              /\ response_post.status_code # 200
                                    => ret[2] = MsgPostStatus(response_post.status_code)
    /\ \A n \in 1..Len(cookies_list) :
          /\ Count(Did(n), "GET check-in") <= 1
          /\ Count(Did(n), "POST check-in") <= 1

\* the POST answered 200 with a success indicator
C8_Witness ==
    /\ pc = "checkin_return"
    /\ response_post # None
    /\ response_post.status_code = 200
    /\ ret[1]

C9_Positive(r) ==
    /\ r.status_code = 200
    /\ \E t \in Range(r.text) : Lower(t) \in {"dashboard", "logout", "profile", "user", "username"}

C9_Negative(r) == Lower(r.url) = "https://leaflow.net/login"

\* the probes made for account n, in order
C9_Probes(n) == SelectSeq(Did(n), LAMBDA what : what \in Range(TestUrls))

\* C9: the probes of an account are /dashboard, /user, /profile in that order,
\* each at most once; a further probe is made only after a response without a
\* positive or negative signal; the function returns success on a positive
\* signal, the login failure on a negative one, the failure naming the error
\* when a probe raised, and the could-not-confirm failure only after three
\* probes without a signal
C9_ProbeOrder ==
    /\ \A n \in 1..Len(cookies_list) :
          C9_Probes(n) = SubSeq(TestUrls, 1, Len(C9_Probes(n)))
    /\ pc = "auth" =>
          /\ Len(C9_Probes(i + 1)) = k - 1
          /\ k > 1 => ~C9_Positive(response) /\ ~C9_Negative(response)
    /\ pc = "auth_return" =>
          /\ Len(C9_Probes(i + 1)) = k
          /\ IF exc # None THEN ret = <<FALSE, MsgAuthNetwork(exc)>>
             ELSE IF C9_Positive(response) THEN ret = <<TRUE, MsgAuthOk>>
             ELSE IF C9_Negative(response) THEN ret = <<FALSE, MsgAuthLogin>>
             ELSE k = 3 /\ ret = <<FALSE, MsgAuthUnconfirmed(3)>>
    /\ pc \in {"checkin_get", "checkin_post", "checkin_return", "delay"} =>
          Len(C9_Probes(i + 1)) \in 1..3

\* three probes were made and none gave a signal
C9_Witness ==
    /\ pc = "auth_return"
    /\ k = 3
    /\ exc = None
    /\ ret = <<FALSE, MsgAuthUnconfirmed(3)>>

C10_Position(seq, x) == Min({j \in 1..Len(seq) : seq[j] = x})

C10_AuthFailures ==
    { MsgAuthLogin[1], MsgAuthUnconfirmed(3)[1], MsgAuthNetwork(RequestException)[1] }

\* C10: a request to the check-in endpoint is made for an account only after
\* its cookie string gave a pair and its authentication returned success; an
\* account with a cookie format error or an authentication failure gets no such
\* request and a failed result; an account gets at most one GET and one POST,
\* the POST after the GET
C10_CheckinOnlyWhenAuthenticated ==
    \A n \in 1..Len(cookies_list) :
        LET did == Did(n)
            gets == Count(did, "GET check-in")
            posts == Count(did, "POST check-in")
        IN  /\ gets <= 1
            /\ posts <= 1
            /\ posts = 1 =>
                  /\ gets = 1
                  /\ C10_Position(did, "GET check-in") < C10_Position(did, "POST check-in")
            /\ gets = 1 =>
                  /\ "=" \in Range(cookies_list[n])
                  /\ Count(did, "log: cookie valid") = 1
                  /\ C10_Position(did, "log: cookie valid") < C10_Position(did, "GET check-in")
            /\ (/\ n <= Len(results)
                /\ results[n].message[1] \in {MsgCookieFormat[1]} \cup C10_AuthFailures)
               => ~results[n].success /\ gets = 0 /\ posts = 0

\* the first account was checked in with a GET and a POST, the second failed
\* its authentication
C10_Witness ==
    /\ Len(results) = 2
    /\ Count(Did(1), "POST check-in") = 1
    /\ results[1].success
    /\ results[2].message = MsgAuthLogin

====
